---- MODULE Spec2Model ----
(***************************************************************************)
(* NetCDFGridUtils (geophys_utils/_netcdf_grid_utils.py): the grid         *)
(* geometry built by the constructor, the two coordinate resolvers, and    *)
(* the nearest-value and interpolated samplers with their batch loop.      *)
(* Spec is the handle called in its native reference system; SpecCRS is    *)
(* the two resolvers called with a crs argument; SpecRepeat is one call    *)
(* made twice in a row with the same list; SpecSample is the default       *)
(* transect spacing of handles whose centre pixel has any nominal size;    *)
(* SpecLoop is get_value_at_coords on a store that answers every fetch,    *)
(* each pass of the batch loop being taken in turn.                        *)
(*                                                                         *)
(* NetCDFUtils (geophys_utils/_netcdf_utils.py): copy, with its options,   *)
(* its y flip and its piece loop, is SpecCopy.                             *)
(*                                                                         *)
(* Numbers: coordinates, axis values and pixel sizes are integers; every   *)
(* pixel size is even, so pixel_size / 2.0 is exact.  Array indices are    *)
(* the 0-based indices of the Python code; TLA+ sequences are 1-based, so  *)
(* element i of a Python array a is a[i + 1] here.  A fractional index is  *)
(* the exact quotient num / den, kept as the record [num, den].            *)
(* None is the empty tuple << >>.                                          *)
(***************************************************************************)
EXTENDS Integers, Sequences, FiniteSets, TLC

VARIABLES
    data_variable,      \* self.data_variable: dimensions, itemsize, _FillValue
    dimension_arrays,   \* self.dimension_arrays: the two axes, storage order
    YX_order,           \* self.YX_order
    crs,                \* self.crs
    pixel_size,         \* self.pixel_size
    min_extent,         \* self.min_extent
    max_extent,         \* self.max_extent
    nominal_pixel_metres,   \* self.nominal_pixel_metres
    default_sample_metres,  \* self.default_sample_metres
    same_object,        \* the identity transform hands back the caller's list
    coordinates,        \* the caller's coordinate batch (a Python list)
    pc,                 \* "idle", "loop" (inside the batch loop), "done"
    op,                 \* the public operation in progress or just finished
    input,              \* value of the caller's batch when the call began
    max_bytes,          \* the max_bytes argument of the call (0 is None)
    indices,            \* get_value_at_coords: indices
    index_array,        \* get_value_at_coords: index_array
    mask_array,         \* mask_array
    value_array,        \* value_array
    result_array,       \* result_array (get_interpolated_value_at_coords)
    start_index,        \* start_index
    end_index,          \* end_index
    max_points,         \* max_points
    fetches,            \* the store fetches issued by the call, in order
    result,             \* what the call returned or raised
    source_crs,         \* the crs argument of a resolver call
    transform_call,     \* the arguments the call handed to transform_coords
    earlier,            \* the caller's previous call with the same list
    DEFAULT_COPY_OPTIONS,       \* NetCDFUtils.DEFAULT_COPY_OPTIONS
    default_variable_options,   \* keys of copy's default variable_options_dict
    y_variable,         \* self.y_variable of the NetCDFUtils handle
    y_inverted,         \* self.y_inverted
    chunking,           \* input_variable.chunking() of each variable
    copy_pc,            \* "idle", "variables" (in the loop), "closed"
    invert_y,           \* copy: the invert_y argument
    dim_range_dict,     \* copy: the range of y in dim_range_dict, or None
    variable_options_dict,  \* copy: the dictionary after lines 82-85
    flip_y,             \* copy: flip_y
    dim_size,           \* copy: dim_size
    nc_output_dataset   \* copy: the output variables written so far

vars == <<data_variable, dimension_arrays, YX_order, crs, pixel_size,
          min_extent, max_extent, same_object, coordinates, pc, op, input,
          max_bytes, indices, index_array, mask_array, value_array,
          result_array, start_index, end_index, max_points, fetches,
          result, source_crs, transform_call, earlier,
          nominal_pixel_metres, default_sample_metres,
          DEFAULT_COPY_OPTIONS, default_variable_options, y_variable,
          y_inverted, chunking, copy_pc, invert_y, dim_range_dict,
          variable_options_dict, flip_y, dim_size, nc_output_dataset>>

\* The class, the NetCDFUtils handle and its copy call
copying == <<DEFAULT_COPY_OPTIONS, default_variable_options, y_variable,
             y_inverted, chunking, copy_pc, invert_y, dim_range_dict,
             variable_options_dict, flip_y, dim_size, nc_output_dataset>>

\* What a call made with its crs argument records
crs_call == <<source_crs, transform_call>>

\* What the calls on a grid handle made through Spec leave alone
aside == <<earlier, copying>>

geometry == <<data_variable, dimension_arrays, YX_order, crs, pixel_size,
              min_extent, max_extent, same_object, nominal_pixel_metres,
              default_sample_metres>>

locals == <<indices, index_array, mask_array, value_array, result_array,
            start_index, end_index, max_points>>

\* The grid handle and its calls
grid_vars == <<geometry, coordinates, pc, op, input, max_bytes, locals,
               fetches, result, source_crs, transform_call, earlier>>

(***************************************************************************)
(* Bounds of the model.                                                    *)
(***************************************************************************)
\* longest coordinate batch drawn from BatchCoords
MaxBatch == 3
\* largest nominal pixel size, in whole metres, of a handle of SpecSample
MaxPixelMetres == 12

None == << >>

(***************************************************************************)
(* Python and numpy helpers.                                               *)
(***************************************************************************)
Abs(x) == IF x < 0 THEN 0 - x ELSE x

\* min(a, b), max(a, b)
Min2(a, b) == IF a <= b THEN a ELSE b
Max2(a, b) == IF a >= b THEN a ELSE b

\* min(array), max(array)
SeqMin(arr) == CHOOSE v \in {arr[k] : k \in DOMAIN arr} :
                   \A k \in DOMAIN arr : v <= arr[k]
SeqMax(arr) == CHOOSE v \in {arr[k] : k \in DOMAIN arr} :
                   \A k \in DOMAIN arr : v >= arr[k]

\* list.reverse()
Reverse(s) == [k \in 1..Len(s) |-> s[Len(s) + 1 - k]]

SetMin(S) == CHOOSE v \in S : \A w \in S : v <= w

\* int(math.sqrt(n)) for n >= 0
RECURSIVE ISqrtFrom(_, _)
ISqrtFrom(n, r) == IF (r + 1) * (r + 1) > n THEN r ELSE ISqrtFrom(n, r + 1)
ISqrt(n) == ISqrtFrom(n, 0)

(***************************************************************************)
(* The dataset the handle wraps.                                           *)
(***************************************************************************)
HORIZONTAL_VARIABLE_NAMES == {"lon", "Easting", "x", "longitude"}

NativeCRS == "native"

\* The x and y coordinate variables of the file: regularly spaced, one
\* pixel apart, stored ascending or descending.
XAxes == {<<0, 10, 20, 30>>, <<30, 20, 10, 0>>}
YAxes == {<<0, 10, 20>>, <<20, 10, 0>>}

\* The grid mapping variable's GeoTransform for axes xs, ys: element 1 is
\* the x pixel step and element 5 the y pixel step (0-based numbering).
GeoTransformOf(xs, ys) ==
    <<xs[1], xs[2] - xs[1], 0, ys[1], 0, ys[2] - ys[1]>>

\* __init__ lines 95-98
PixelSizeOf(GeoTransform, yx) ==
    LET ps == <<Abs(GeoTransform[2]), Abs(GeoTransform[6])>>
    IN  IF yx THEN Reverse(ps) ELSE ps

\* A lower extent a whole pixel below the smallest axis value
MinExtentOfWholePixel(arrays, ps) ==
    [d \in 1..2 |-> SeqMin(arrays[d]) - ps[d]]

\* __init__ lines 100-101
MinExtentOf(arrays, ps) ==
    [d \in 1..2 |-> SeqMin(arrays[d]) - ps[d] \div 2]

\* __init__ lines 102-103
MaxExtentOf(arrays, ps) ==
    [d \in 1..2 |-> SeqMax(arrays[d]) + ps[d] \div 2]

\* lines 31-50: the distance, on each axis, between the centre pixel and
\* its diagonal neighbour in the UTM zone of the centre pixel.  The native
\* reference system of the grids above is in metres, so the UTM transform
\* keeps the distances.
get_nominal_pixel_metres(arrays, yx) ==
    LET centre_pixel_indices == [d \in 1..2 |-> Len(arrays[d]) \div 2]
        pixel(n) == [d \in 1..2 |-> arrays[d][centre_pixel_indices[d] + n]]
        centre_pixel_coords ==
            IF yx THEN <<Reverse(pixel(1)), Reverse(pixel(2))>>
                  ELSE <<pixel(1), pixel(2)>>
        centre_pixel_utm_coords ==
            [k \in 1..2 |-> [d \in 1..2 |-> centre_pixel_coords[k][d] + 10]]
    IN  [d \in 1..2 |-> Abs(centre_pixel_utm_coords[2][d]
                                - centre_pixel_utm_coords[1][d])]

\* 10 ^ floor(log10(s / 2.0)) for s >= 2: the largest power of ten that is
\* not above the average s / 2, searched from the power of ten P upward
RECURSIVE DecadeFrom(_, _)
DecadeFrom(s, P) == IF 20 * P <= s THEN DecadeFrom(s, 10 * P) ELSE P

\* lines 57-62, for nominal sizes in whole metres: with the average
\* a = m * 10^n, 1 <= m < 10, the result is 5 * 10^n if
\* log10(a) % 1.0 < log10(5), that is if m < 5, and 10^(n+1) otherwise.
\* For averages below 50 the floating-point computation and round() give
\* exactly these values.
get_default_sample_metres(nominal) ==
    LET s == nominal[1] + nominal[2]
        P == DecadeFrom(s, 1)
    IN  IF s < 10 * P THEN 5 * P ELSE 10 * P

\* The value the store holds at storage indices (i, j), 0-based: every cell
\* holds its own value, except one cell that holds the no-data sentinel.
StoreValue(i, j) ==
    IF i = 0 /\ j = 1 THEN data_variable.FillValue
    ELSE 1 + i * Len(dimension_arrays[2]) + j


(***************************************************************************)
(* The coordinate transform (geophys_utils._crs_utils.transform_coords),   *)
(* transform(coords, from_crs, to_crs) -> coords.  The second reference    *)
(* system of the model has its origin one pixel (10 units) south-west of   *)
(* the native one on both axes, so a position's coordinates in it are the  *)
(* native ones plus 10.  With equal reference systems the transform is the *)
(* identity.                                                               *)
(***************************************************************************)
ShiftedCRS == "shifted"

\* A crs argument left out: Python's None
NoCRS == "None"

\* A position's coordinate in reference system c minus its native coordinate
OriginOffset(c) == IF c = NativeCRS THEN 0 ELSE 10

transform_coords(coords, from_crs, to_crs) ==
    [k \in DOMAIN coords |->
         [d \in DOMAIN coords[k] |->
              coords[k][d] + OriginOffset(to_crs) - OriginOffset(from_crs)]]

(***************************************************************************)
(* GridIndexResolver: get_indices_from_coords and                          *)
(* get_fractional_indices_from_coords.                                     *)
(***************************************************************************)
\* lines 120-126: each pair is reversed to the array's dimension order
StorageOrdered(native_coordinates) ==
    IF YX_order
    THEN [k \in DOMAIN native_coordinates |->
              IF native_coordinates[k] # None
              THEN Reverse(native_coordinates[k]) ELSE None]
    ELSE native_coordinates

\* lines 122-126: the reversal assigns into native_coordinates itself, which
\* is the caller's list when the transform handed it back
CallerListAfter(coords) ==
    IF same_object THEN StorageOrdered(coords) ELSE coords

\* An extent test that looks at the first axis only
OutOfExtentOnlyFirstAxis(coordinate) ==
    coordinate[1] < min_extent[1] \/ coordinate[1] > max_extent[1]

\* line 132: the extent test of one storage-ordered coordinate
OutOfExtent(coordinate) ==
    \E d \in 1..2 : \/ coordinate[d] < min_extent[d]
                    \/ coordinate[d] > max_extent[d]

\* A window of a whole pixel on each side instead of half a pixel
WhereWithinWholePixel(d, value) ==
    {k - 1 : k \in {n \in DOMAIN dimension_arrays[d] :
                 Abs(dimension_arrays[d][n] - value) <= pixel_size[d]}}

\* line 131: np.where(abs(axis - value) <= pixel_size / 2.0)[0], 0-based
WhereWithin(d, value) ==
    {k - 1 : k \in {n \in DOMAIN dimension_arrays[d] :
                 Abs(dimension_arrays[d][n] - value) <= pixel_size[d] \div 2}}

\* The last position found instead of the first
NearestIndexLast(d, value) ==
    IF WhereWithin(d, value) = {} THEN -1
    ELSE 0 - SetMin({0 - i : i \in WhereWithin(d, value)})

\* line 131: ...[0][0], the first position found; -1 stands for the
\* IndexError that [0] raises on an empty array
NearestIndex(d, value) ==
    IF WhereWithin(d, value) = {} THEN -1 ELSE SetMin(WhereWithin(d, value))

\* lines 131-133: the entry of one storage-ordered coordinate
IndexEntry(coordinate) ==
    IF ~OutOfExtent(coordinate)
    THEN [d \in 1..2 |-> NearestIndex(d, coordinate[d])]
    ELSE None

RaisesIndexError(entry) == entry # None /\ \E d \in 1..2 : entry[d] = -1

\* line 115: crs = crs or self.crs
CrsOr(source) == IF source = NoCRS THEN crs ELSE source

\* line 116: transform_coords(coordinates, self.crs, crs); the parameters of
\* transform_coords are (coordinates, from_crs, to_crs)
TransformArguments(source) == [from_crs |-> crs, to_crs |-> CrsOr(source)]

\* lines 115-116 (and 148-149): native_coordinates
NativeCoordinates(coords, source) ==
    transform_coords(coords, TransformArguments(source).from_crs,
                     TransformArguments(source).to_crs)

\* lines 115-140, for a batch of pairs given in reference system `source`
ResolveIndices(coords, source) ==
    LET native_coordinates == StorageOrdered(NativeCoordinates(coords, source))
        entries == [k \in DOMAIN native_coordinates |->
                        IndexEntry(native_coordinates[k])]
    IN  IF \E k \in DOMAIN entries : RaisesIndexError(entries[k])
        THEN [kind |-> "IndexError", value |-> << >>]
        ELSE [kind |-> "list", value |-> entries]

\* lines 115-140, for a batch of pairs in the native reference system
get_indices_from_coords(coords) == ResolveIndices(coords, NoCRS)

\* line 166: the fractional index on axis d
FractionalIndex(d, value) ==
    [num |-> value - SeqMin(dimension_arrays[d]), den |-> pixel_size[d]]

\* lines 166-168
FractionalEntry(coordinate) ==
    IF ~OutOfExtent(coordinate)
    THEN [d \in 1..2 |-> FractionalIndex(d, coordinate[d])]
    ELSE None

\* lines 148-175, for a batch of pairs given in reference system `source`
ResolveFractional(coords, source) ==
    LET native_coordinates == StorageOrdered(NativeCoordinates(coords, source))
    IN  [kind |-> "list",
         value |-> [k \in DOMAIN native_coordinates |->
                        FractionalEntry(native_coordinates[k])]]

\* lines 148-175, for a batch of pairs in the native reference system
get_fractional_indices_from_coords(coords) == ResolveFractional(coords, NoCRS)


(***************************************************************************)
(* GridSampler: get_value_at_coords and get_interpolated_value_at_coords.  *)
(***************************************************************************)
\* line 20: the class attribute DEFAULT_MAX_BYTES
DEFAULT_MAX_BYTES == 500000000

\* line 188: the literal that replaces a max_bytes of None (or 0)
FallbackMaxBytes == 100

\* line 188: max_bytes = max_bytes or 100
EffectiveMaxBytes(bytes) == IF bytes = 0 THEN FallbackMaxBytes ELSE bytes

\* A batch size without the square root
MaxPointsLinear(bytes, itemsize) ==
    Max2(bytes \div itemsize, 1)

\* lines 201-202: max(int(math.sqrt(max_bytes / itemsize)), 1)
MaxPoints(bytes, itemsize) ==
    Max2(ISqrt(bytes \div itemsize), 1)

\* lines 207-208: the valid index pairs only
ValidPairs(entries) == SelectSeq(entries, LAMBDA e : e # None)

\* lines 212-213
MaskOf(entries) == [k \in DOMAIN entries |-> entries[k] # None]

\* lines 215-216 and 218-219: np.ones(shape=(n)) * no_data_value
NoDataArray(n) == [k \in 1..n |-> data_variable.FillValue]

\* lines 226-227: the diagonal of the block the store returns for the index
\* pairs start..end-1 is written to value_array[start:end]
FetchedInto(values, pairs, start, end) ==
    [k \in DOMAIN values |->
         IF start < k /\ k <= end
         THEN StoreValue(pairs[k][1], pairs[k][2]) ELSE values[k]]

\* The fetched values scattered in reverse order
StitchReversed(mask, values) ==
    [k \in DOMAIN mask |->
         IF mask[k]
         THEN values[Len(values) + 1 - Cardinality({n \in 1..k : mask[n]})]
         ELSE data_variable.FillValue]

\* line 233: result_array[mask_array] = value_array, on an all-no-data array
Stitch(mask, values) ==
    [k \in DOMAIN mask |->
         IF mask[k]
         THEN values[Cardinality({n \in 1..k : mask[n]})]
         ELSE data_variable.FillValue]

\* line 280: scipy's map_coordinates at one fractional index pair.  At a
\* pair of whole indices inside the array the spline takes the cell's own
\* value; anywhere else it is a blend of cells and cval, written -1.
map_coordinates(entry) ==
    IF /\ \A d \in 1..2 : entry[d].num % entry[d].den = 0
       /\ \A d \in 1..2 : entry[d].num \div entry[d].den
                              \in 0..(Len(dimension_arrays[d]) - 1)
    THEN StoreValue(entry[1].num \div entry[1].den,
                    entry[2].num \div entry[2].den)
    ELSE -1

\* lines 287-288: positions whose nearest value is no-data are forced to it
MaskNoData(interpolated, nearest) ==
    [k \in DOMAIN interpolated |->
         IF nearest[k] = data_variable.FillValue
         THEN data_variable.FillValue ELSE interpolated[k]]

NoResult == [kind |-> "none", value |-> << >>]

\* A store fetch as the call log keeps it: the batch fetch of lines 226-227
\* for index pairs start..end-1, or the fetch of line 236, and whether the
\* store returned (ok) or raised
Batch(start, end, ok) ==
    [kind |-> "batch", start |-> start, end |-> end, ok |-> ok]
Fallback(ok) == [kind |-> "fallback", start |-> 0, end |-> 0, ok |-> ok]

\* A store fetch of the call in progress has raised
StoreFailed == \E p \in DOMAIN fetches : ~fetches[p].ok


(***************************************************************************)
(* NetCDFUtils (geophys_utils/_netcdf_utils.py): the dataset it wraps and  *)
(* copy.  An array is a function from 0-based index tuples to values; a    *)
(* slice is the record [start, stop, step, open], open meaning a stop of   *)
(* None.                                                                   *)
(***************************************************************************)
\* netcdf_dataset.variables in file order: the two coordinate variables,
\* the data variable (it has grid_mapping) and a second 2-D variable that
\* has no grid_mapping
VariableNames == <<"y", "x", "data", "quality">>

\* __init__ lines 32-33: self.data_variable_list
data_variable_list == {"data"}

\* variable.dimensions
Dimensions(name) ==
    IF name = "y" THEN <<"y">>
    ELSE IF name = "x" THEN <<"x">>
    ELSE <<"y", "x">>

\* The x coordinate variable
x_variable == <<0, 10>>

\* len(dimension) in the input dataset
InputLength(dimension_name) ==
    IF dimension_name = "y" THEN Len(y_variable) ELSE Len(x_variable)

\* input_variable.shape
InputShape(name) ==
    [d \in DOMAIN Dimensions(name) |-> InputLength(Dimensions(name)[d])]

\* input_variable[index]: the coordinate, or a value that names the
\* variable, the row and the column
InputValue(name, index) ==
    IF name = "y" THEN y_variable[index[1] + 1]
    ELSE IF name = "x" THEN x_variable[index[1] + 1]
    ELSE (IF name = "data" THEN 100 ELSE 200) + 10 * index[1] + index[2]

\* __init__ line 42
YInverted(ys) == ys[Len(ys)] < ys[1]

\* The index tuples of an array of the given shape
IndexSet(shape) ==
    IF Len(shape) = 1
    THEN {<<i>> : i \in 0..(shape[1] - 1)}
    ELSE (0..(shape[1] - 1)) \X (0..(shape[2] - 1))

\* slice(start, stop) and slice(start, stop, -1), stop possibly None
Slice(start, stop) ==
    [start |-> start, stop |-> stop, step |-> 1, open |-> FALSE]
SliceBack(start, stop, open) ==
    [start |-> start, stop |-> stop, step |-> 0 - 1, open |-> open]

\* The indices a slice selects, in order
SliceIndices(sl) ==
    IF sl.step = 1
    THEN [k \in 1..(sl.stop - sl.start) |-> sl.start + k - 1]
    ELSE LET last == IF sl.open THEN 0 ELSE sl.stop + 1
         IN  [k \in 1..(sl.start - last + 1) |-> sl.start - (k - 1)]

\* array[slices] read from an input variable: a new array
ReadSlices(name, slices) ==
    LET picked == [d \in DOMAIN slices |-> SliceIndices(slices[d])]
    IN  [index \in IndexSet([d \in DOMAIN slices |-> Len(picked[d])]) |->
             InputValue(name, [d \in DOMAIN slices |->
                                   picked[d][index[d] + 1]])]

\* output[slices] = block
WriteSlices(output, slices, block) ==
    LET picked == [d \in DOMAIN slices |-> SliceIndices(slices[d])]
        source(index) ==
            {k \in DOMAIN block :
                 \A d \in DOMAIN slices : picked[d][k[d] + 1] = index[d]}
    IN  [index \in DOMAIN output |->
             IF source(index) # {}
             THEN block[CHOOSE k \in source(index) : TRUE]
             ELSE output[index]]

\* A list of chunk sizes as a dictionary of options holds it: the list of
\* NetCDFUtils.DEFAULT_COPY_OPTIONS itself (shared), or a list of its own
SharedChunksizes == [shared |-> TRUE, list |-> << >>]
OwnChunksizes(list) == [shared |-> FALSE, list |-> list]

NoChunksizes == [shared |-> FALSE, list |-> << >>]

\* The chunking() of a 2-D variable: contiguous (None) or chunk sizes
DataChunkings == {None, <<2, 1>>, <<1, 2>>}
QualityChunkings == {None, <<2, 2>>}

\* NetCDFUtils(nc_path), lines 28-49, on a dataset with the y axis ys; the
\* class attribute DEFAULT_COPY_OPTIONS (lines 19-25, complevel and
\* chunksizes kept) and the default of copy's variable_options_dict are as
\* the module defines them; no copy is under way
UtilsInit(ys, data_chunking, quality_chunking) ==
    /\ DEFAULT_COPY_OPTIONS = [complevel |-> 4, chunksizes |-> <<1024, 1024>>]
    /\ default_variable_options = {}
    /\ y_variable = ys
    /\ y_inverted = YInverted(ys)
    /\ chunking = [y |-> None, x |-> None, data |-> data_chunking,
                   quality |-> quality_chunking]
    /\ copy_pc = "idle"
    /\ invert_y = None
    /\ dim_range_dict = None
    /\ variable_options_dict =
           [default |-> FALSE, names |-> {}, chunksizes |-> NoChunksizes]
    /\ flip_y = FALSE
    /\ dim_size = [y |-> 0, x |-> 0]
    /\ nc_output_dataset = << >>

(***************************************************************************)
(* Construction: the state after NetCDFGridUtils(netcdf_dataset), and the  *)
(* coordinate batch the caller holds.                                      *)
(***************************************************************************)
\* dtype.itemsize of the data variable (float32, float64)
ItemSizes == {4, 8}

\* max_bytes arguments of a call; 0 stands for None
MaxBytesArgs == {0, 3, 36}

\* Coordinate values probing one axis: just outside and exactly on both
\* extents, every cell centre, a pixel boundary, and two values strictly
\* inside a cell's half-pixel window on either side of its centre.
ProbeValues(axis, pixel) ==
    LET lo == SeqMin(axis)
        hi == SeqMax(axis)
        half == pixel \div 2
    IN  {lo - half - 1, lo - half, lo + 3, lo + half, lo + pixel - 2,
         hi + half, hi + half + 1} \cup {axis[k] : k \in DOMAIN axis}

\* Three values of an axis: a cell centre, a pixel boundary and a value
\* out of extent
FewValues(axis, pixel) ==
    {axis[1], SeqMin(axis) + pixel \div 2, SeqMax(axis) + pixel \div 2 + 1}

\* Single pairs (x, y): every cell centre, and every probe value of one
\* axis with the few values of the other
ProbeCoords(xs, ys) ==
    LET px == Abs(xs[2] - xs[1])
        py == Abs(ys[2] - ys[1])
    IN  ({xs[k] : k \in DOMAIN xs} \X {ys[k] : k \in DOMAIN ys})
        \cup (ProbeValues(xs, px) \X FewValues(ys, py))
        \cup (FewValues(xs, px) \X ProbeValues(ys, py))

\* Pairs (x, y) used in the longer batches: two cells and one pair out of
\* extent
BatchCoords == {<<10, 10>>, <<30, 0>>, <<36, 5>>}

InputBatches(xs, ys) ==
    {<<c>> : c \in ProbeCoords(xs, ys)}
    \cup UNION {[1..n -> BatchCoords] : n \in 0..MaxBatch}

GridInit ==
    \E xs \in XAxes, ys \in YAxes, dims \in {<<"y", "x">>, <<"x", "y">>},
       size \in ItemSizes :
        LET yx == dims[2] \in HORIZONTAL_VARIABLE_NAMES
            arrays == IF dims[1] = "x" THEN <<xs, ys>> ELSE <<ys, xs>>
            ps == PixelSizeOf(GeoTransformOf(xs, ys), yx)
        IN  /\ data_variable =
                   [dimensions |-> dims, itemsize |-> size, FillValue |-> 0]
            /\ YX_order = yx
            /\ dimension_arrays = arrays
            /\ crs = NativeCRS
            /\ pixel_size = ps
            /\ min_extent = MinExtentOf(arrays, ps)
            /\ max_extent = MaxExtentOf(arrays, ps)
            /\ coordinates \in InputBatches(xs, ys)
    /\ same_object \in BOOLEAN
    /\ pc = "idle"
    /\ op = "none"
    /\ input = << >>
    /\ max_bytes = 0
    /\ indices = << >>
    /\ index_array = << >>
    /\ mask_array = << >>
    /\ value_array = << >>
    /\ result_array = << >>
    /\ start_index = 0
    /\ end_index = 0
    /\ max_points = 0
    /\ fetches = << >>
    /\ result = NoResult

\* No call has been made with a crs argument
NoTransform == [from_crs |-> NoCRS, to_crs |-> NoCRS]

NoCrsCall ==
    /\ source_crs = NoCRS
    /\ transform_call = NoTransform

\* No previous call is remembered
NoEarlier == [op |-> "none", max_bytes |-> 0, input |-> << >>,
              result |-> NoResult]

Init ==
    /\ GridInit
    /\ UtilsInit(<<0, 10, 20>>, None, None)
    /\ NoCrsCall
    /\ earlier = NoEarlier
    /\ nominal_pixel_metres =
           get_nominal_pixel_metres(dimension_arrays, YX_order)
    /\ default_sample_metres =
           get_default_sample_metres(nominal_pixel_metres)

(***************************************************************************)
(* Calls.  The caller makes one call at a time on the handle, each with the *)
(* coordinate list it holds.                                               *)
(***************************************************************************)
Begin(name, bytes) ==
    /\ pc = "idle"
    /\ op' = name
    /\ input' = coordinates
    /\ max_bytes' = bytes
    /\ fetches' = << >>
    /\ UNCHANGED <<geometry, crs_call, aside>>

ClearLocals ==
    /\ indices' = << >>
    /\ index_array' = << >>
    /\ mask_array' = << >>
    /\ value_array' = << >>
    /\ result_array' = << >>
    /\ start_index' = 0
    /\ end_index' = 0
    /\ max_points' = 0

\* On return or raise the call's local variables are gone
Finished(outcome) ==
    /\ pc' = "done"
    /\ result' = outcome
    /\ ClearLocals

\* get_indices_from_coords(coordinates), lines 109-140
CallGetIndices ==
    /\ Begin("get_indices_from_coords", 0)
    /\ Finished(get_indices_from_coords(coordinates))
    /\ coordinates' = CallerListAfter(coordinates)

\* get_fractional_indices_from_coords(coordinates), lines 142-175
CallGetFractional ==
    /\ Begin("get_fractional_indices_from_coords", 0)
    /\ Finished(get_fractional_indices_from_coords(coordinates))
    /\ coordinates' = CallerListAfter(coordinates)

\* get_value_at_coords lines 188-221, entered with the list `coords` and the
\* byte budget `bytes`: up to the first store fetch.  `interpolated` is the
\* caller's result_array when the interpolated sampler makes the call.
EnterGetValue(coords, bytes, interpolated) ==
    LET found == get_indices_from_coords(coords)
        points == MaxPoints(EffectiveMaxBytes(bytes), data_variable.itemsize)
        pairs == ValidPairs(found.value)
    IN  IF found.kind # "list"
        THEN \* line 197 raised
             Finished(found)
        ELSE /\ result' = NoResult
             /\ indices' = found.value
             /\ max_points' = points
             /\ result_array' = interpolated
             /\ start_index' = 0
             /\ IF Len(pairs) = 0
                THEN \* lines 209-210: index_array.shape is (0,), the
                     \* assertion fails
                     /\ pc' = "except"
                     /\ index_array' = << >>
                     /\ mask_array' = << >>
                     /\ value_array' = << >>
                     /\ end_index' = 0
                ELSE /\ pc' = "loop"
                     /\ index_array' = pairs
                     /\ mask_array' = MaskOf(found.value)
                     /\ value_array' = NoDataArray(Len(pairs))
                     /\ end_index' = Min2(points, Len(pairs))

\* get_value_at_coords(coordinates, max_bytes=bytes), lines 177-221
CallGetValue ==
    \E bytes \in MaxBytesArgs :
        /\ Begin("get_value_at_coords", bytes)
        /\ EnterGetValue(coordinates, bytes, << >>)
        /\ coordinates' = CallerListAfter(coordinates)

\* A loop that drops one pair between two batches
NextStartSkipsOne(end) == end + 1

\* line 230: the next batch starts where this one ended
NextStart(end) == end

\* A batch end that is not cut at the number of index pairs
NextEndUnclamped(start) == start + max_points

\* line 231: the next batch ends max_points pairs on, or at the last pair
NextEnd(start) == Min2(start + max_points, Len(index_array))

\* One pass of the loop of lines 222-231 whose store fetch returns, with
\* lines 233-234 (and 287-290 for the interpolated sampler) after the last
FetchBatch ==
    /\ pc = "loop"
    /\ fetches' = Append(fetches, Batch(start_index, end_index, TRUE))
    /\ LET fetched == FetchedInto(value_array, index_array,
                                  start_index, end_index)
       IN  IF end_index = Len(index_array)
           THEN Finished(
                  [kind |-> "list",
                   value |-> IF op = "get_value_at_coords"
                             THEN Stitch(mask_array, fetched)
                             ELSE MaskNoData(result_array,
                                             Stitch(mask_array, fetched))])
           ELSE /\ pc' = "loop"
                /\ result' = result
                /\ value_array' = fetched
                /\ start_index' = NextStart(end_index)
                /\ end_index' = NextEnd(NextStart(end_index))
                /\ UNCHANGED <<indices, index_array, mask_array,
                               result_array, max_points>>
    /\ UNCHANGED <<geometry, coordinates, op, input, max_bytes, crs_call,
                   aside>>

\* One pass of the loop whose store fetch raises: the bare except of line
\* 235 catches it
FetchRaises ==
    /\ pc = "loop"
    /\ fetches' = Append(fetches, Batch(start_index, end_index, FALSE))
    /\ pc' = "except"
    /\ UNCHANGED <<geometry, coordinates, op, input, max_bytes, locals,
                   result, crs_call, aside>>

\* line 236: return data_variable[indices[0], indices[1]].  With fewer than
\* two entries indices[1] raises IndexError; otherwise the store is asked
\* for the block keyed by the first two entries of indices.
\* In the interpolated sampler (lines 287-288) a returned block is compared
\* with the sentinel and used as a mask of result_array, which raises.
ExceptReturns ==
    /\ pc = "except"
    /\ IF Len(indices) < 2
       THEN /\ Finished([kind |-> "IndexError", value |-> << >>])
            /\ fetches' = fetches
       ELSE /\ fetches' = Append(fetches, Fallback(TRUE))
            /\ Finished(IF op = "get_value_at_coords"
                        THEN [kind |-> "block",
                              value |-> <<indices[1], indices[2]>>]
                        ELSE [kind |-> "IndexError", value |-> << >>])
    /\ UNCHANGED <<geometry, coordinates, op, input, max_bytes, crs_call,
                   aside>>

\* line 236 when the store raises on the fallback fetch
ExceptRaises ==
    /\ pc = "except"
    /\ Len(indices) >= 2
    /\ fetches' = Append(fetches, Fallback(FALSE))
    /\ Finished([kind |-> "StoreError", value |-> << >>])
    /\ UNCHANGED <<geometry, coordinates, op, input, max_bytes, crs_call,
                   aside>>

\* get_interpolated_value_at_coords(coordinates, max_bytes=bytes), lines
\* 238-288, up to the first store fetch of the nested get_value_at_coords
CallGetInterpolated ==
    \E bytes \in MaxBytesArgs :
        LET fractional_indices ==
                get_fractional_indices_from_coords(coordinates).value
            after == CallerListAfter(coordinates)
            valid == ValidPairs(fractional_indices)
            mask == MaskOf(fractional_indices)
            values == [k \in DOMAIN valid |-> map_coordinates(valid[k])]
        IN  /\ Begin("get_interpolated_value_at_coords", bytes)
            /\ IF Len(valid) = 0
               THEN \* lines 268-269 fail; lines 291-293 index or convert None
                    /\ Finished([kind |-> IF Len(fractional_indices) < 2
                                          THEN "IndexError" ELSE "TypeError",
                                 value |-> << >>])
                    /\ coordinates' = after
               ELSE /\ EnterGetValue(after, EffectiveMaxBytes(bytes),
                                     Stitch(mask, values))
                    /\ coordinates' = CallerListAfter(after)

\* sample_metres arguments of sample_transect; 0 stands for None
SampleMetresArgs == {0, 25}

\* sample_transect(transect_vertices, sample_metres=metres), lines 296-305:
\* the spacing handed to geophys_utils._transect_utils.sample_transect,
\* which returns the sample points
CallSampleTransect ==
    \E metres \in SampleMetresArgs :
        /\ Begin("sample_transect", 0)
        /\ Finished([kind |-> "transect",
                     value |-> <<IF metres = 0 THEN default_sample_metres
                                             ELSE metres>>])
        /\ UNCHANGED coordinates

\* The caller has taken the call's outcome and is ready for another call
Return ==
    /\ pc = "done"
    /\ pc' = "idle"
    /\ op' = "none"
    /\ input' = << >>
    /\ max_bytes' = 0
    /\ fetches' = << >>
    /\ result' = NoResult
    /\ source_crs' = NoCRS
    /\ transform_call' = NoTransform
    /\ UNCHANGED <<geometry, coordinates, locals, aside>>

Next ==
    \/ CallGetIndices
    \/ CallGetFractional
    \/ CallGetValue
    \/ CallGetInterpolated
    \/ FetchBatch
    \/ FetchRaises
    \/ ExceptReturns
    \/ ExceptRaises
    \/ CallSampleTransect
    \/ Return

Spec == Init /\ [][Next]_vars

(***************************************************************************)
(* The resolvers called with a crs argument: left out, the native          *)
(* reference system, or the shifted one.                                   *)
(***************************************************************************)
SourceCRSs == {NoCRS, NativeCRS, ShiftedCRS}

\* Entry of a resolver called with crs=source, lines 115-116 (148-149).  A
\* transform between different reference systems builds a new list, so only
\* the identity transform can hand the caller's list back.
BeginIn(name, source) ==
    /\ pc = "idle"
    /\ op' = name
    /\ input' = coordinates
    /\ source_crs' = source
    /\ transform_call' = TransformArguments(source)
    /\ coordinates' = IF CrsOr(source) = crs
                       THEN CallerListAfter(coordinates) ELSE coordinates
    /\ UNCHANGED <<geometry, max_bytes, fetches, aside>>

\* get_indices_from_coords(coordinates, crs=source), lines 109-140
CallGetIndicesIn ==
    \E source \in SourceCRSs :
        /\ BeginIn("get_indices_from_coords", source)
        /\ Finished(ResolveIndices(coordinates, source))

\* get_fractional_indices_from_coords(coordinates, crs=source), lines 142-175
CallGetFractionalIn ==
    \E source \in SourceCRSs :
        /\ BeginIn("get_fractional_indices_from_coords", source)
        /\ Finished(ResolveFractional(coordinates, source))

NextCRS ==
    \/ CallGetIndicesIn
    \/ CallGetFractionalIn
    \/ Return

SpecCRS == Init /\ [][NextCRS]_vars

(***************************************************************************)
(* A caller that makes the same call twice in a row with the same list     *)
(* object: get_indices_from_coords, or get_value_at_coords with the same   *)
(* max_bytes, the store answering every fetch.                             *)
(***************************************************************************)
\* The call is the first on the list, or repeats the remembered one
FirstOrRepeatOf(name) == earlier = NoEarlier \/ earlier.op = name

RepeatGetIndices ==
    /\ FirstOrRepeatOf("get_indices_from_coords")
    /\ CallGetIndices

RepeatGetValue ==
    /\ FirstOrRepeatOf("get_value_at_coords")
    /\ CallGetValue
    /\ earlier # NoEarlier => max_bytes' = earlier.max_bytes

\* The caller keeps the outcome of its first call and is ready to repeat it
ReturnKeeping ==
    /\ pc = "done"
    /\ earlier = NoEarlier
    /\ earlier' = [op |-> op, max_bytes |-> max_bytes, input |-> input,
                   result |-> result]
    /\ pc' = "idle"
    /\ op' = "none"
    /\ input' = << >>
    /\ max_bytes' = 0
    /\ fetches' = << >>
    /\ result' = NoResult
    /\ UNCHANGED <<geometry, coordinates, locals, crs_call, copying>>

NextRepeat ==
    \/ RepeatGetIndices
    \/ RepeatGetValue
    \/ FetchBatch
    \/ ExceptReturns
    \/ ReturnKeeping

SpecRepeat == Init /\ [][NextRepeat]_vars

(***************************************************************************)
(* Handles on datasets in other reference systems, whose centre pixel the  *)
(* UTM transform of lines 45-47 gives any nominal size in whole metres:    *)
(* the default spacing the constructor computes and sample_transect uses.  *)
(***************************************************************************)
InitSample ==
    /\ GridInit
    /\ UtilsInit(<<0, 10, 20>>, None, None)
    /\ dimension_arrays = <<<<0, 10, 20>>, <<0, 10, 20, 30>>>>
    /\ data_variable.itemsize = 4
    /\ coordinates = << >>
    /\ ~same_object
    /\ NoCrsCall
    /\ earlier = NoEarlier
    /\ nominal_pixel_metres \in (1..MaxPixelMetres) \X (1..MaxPixelMetres)
    /\ default_sample_metres =
           get_default_sample_metres(nominal_pixel_metres)

NextSample ==
    \/ CallSampleTransect
    \/ Return

SpecSample == InitSample /\ [][NextSample]_vars

(***************************************************************************)
(* get_value_at_coords on a store that answers every fetch.  The loop of   *)
(* lines 222-231 is sequential code: once a pass can run it runs, which is *)
(* weak fairness of FetchBatch.                                            *)
(***************************************************************************)
NextLoop ==
    \/ CallGetValue
    \/ FetchBatch
    \/ ExceptReturns
    \/ Return

SpecLoop == Init /\ [][NextLoop]_vars /\ WF_vars(FetchBatch)


(***************************************************************************)
(* NetCDFUtils.copy, lines 51-296.                                         *)
(***************************************************************************)
\* invert_y arguments: None, True, False
InvertYArgs == {None, <<TRUE>>, <<FALSE>>}

\* dim_range_dict arguments: no range, or a (start, end + 1) range of y
DimRangeArgs == {None, <<0, 2>>, <<1, 3>>, <<1, 2>>}

\* variable_options_dict arguments: left out, an empty dictionary, or
\* {'data': {'chunksizes': list}}
VariableOptionsArgs ==
    {[omitted |-> TRUE, chunksizes |-> << >>],
     [omitted |-> FALSE, chunksizes |-> << >>],
     [omitted |-> FALSE, chunksizes |-> <<1, 1>>],
     [omitted |-> FALSE, chunksizes |-> <<2, 1>>]}

\* lines 76-79
FlipY(invert) ==
    (IF invert = None THEN y_inverted ELSE invert[1]) # y_inverted

\* lines 93-107
DimSize(dim_range) ==
    [y |-> IF dim_range # None THEN dim_range[2] - dim_range[1]
                               ELSE InputLength("y"),
     x |-> InputLength("x")]

\* dim_range_dict.get(dimension_name)
DimRange(dimension_name) ==
    IF dimension_name = "y" THEN dim_range_dict ELSE None

\* lines 191-195
OverallSlices(name) ==
    [d \in DOMAIN Dimensions(name) |->
         IF DimRange(Dimensions(name)[d]) # None
         THEN Slice(DimRange(Dimensions(name)[d])[1],
                    DimRange(Dimensions(name)[d])[2])
         ELSE Slice(0, InputShape(name)[d])]

\* lines 134-147: input_variable_chunking
InputVariableChunking(name) ==
    IF chunking[name] # None
    THEN [d \in DOMAIN chunking[name] |->
              Min2(chunking[name][d], dim_size[Dimensions(name)[d]])]
    ELSE IF /\ Len(Dimensions(name)) = 2
            /\ name \in variable_options_dict.names
         THEN <<1, dim_size[Dimensions(name)[2]]>>
         ELSE None

\* lines 150-157: the list var_options['chunksizes'] is, if there is one:
\* the list of the variable's entry in variable_options_dict, else the
\* list input_variable_chunking
VarChunksizes(name) ==
    IF name \in variable_options_dict.names
    THEN variable_options_dict.chunksizes
    ELSE IF InputVariableChunking(name) # None
         THEN OwnChunksizes(InputVariableChunking(name))
         ELSE NoChunksizes

\* The elements of a list of chunk sizes
ChunkList(ref) ==
    IF ref.shared THEN DEFAULT_COPY_OPTIONS.chunksizes ELSE ref.list

\* lines 160-163: the elements after the loop has cut them to the dimensions
ClampedChunksizes(name) ==
    [d \in DOMAIN Dimensions(name) |->
         Min2(ChunkList(VarChunksizes(name))[d],
              dim_size[Dimensions(name)[d]])]

\* lines 219-222
PieceSizes(name) ==
    [d \in 1..2 |-> Max2(ClampedChunksizes(name)[d],
                         InputVariableChunking(name)[d])]

\* int(math.ceil(float(a) / b))
CeilDiv(a, b) == (a + b - 1) \div b

\* lines 224-228
PieceIndexRanges(name) ==
    [d \in 1..2 |->
         <<OverallSlices(name)[d].start \div PieceSizes(name)[d],
           CeilDiv(OverallSlices(name)[d].stop, PieceSizes(name)[d])>>]

\* lines 245-249: itertools.product of the two ranges, in order
Pieces(name) ==
    LET ranges == PieceIndexRanges(name)
        rows == ranges[1][2] - ranges[1][1]
        cols == ranges[2][2] - ranges[2][1]
    IN  [n \in 1..(rows * cols) |->
             <<ranges[1][1] + ((n - 1) \div cols),
               ranges[2][1] + ((n - 1) % cols)>>]

\* lines 254-262
PieceReadSlices(name, piece_indices) ==
    [d \in 1..2 |->
         Slice(Max2(OverallSlices(name)[d].start,
                    piece_indices[d] * PieceSizes(name)[d]),
               Min2(OverallSlices(name)[d].stop,
                    (piece_indices[d] + 1) * PieceSizes(name)[d]))]

\* lines 272-275: the write slice along y of a flipped piece
FlippedSlice(length, write) ==
    SliceBack(length - write.start - 1, length - write.stop - 1,
              length - write.stop = 0)

\* lines 264-275; the y dimension is dimension 0 of a 2-D variable
PieceWriteSlices(name, piece_indices) ==
    LET read == PieceReadSlices(name, piece_indices)
        write == [d \in 1..2 |->
                      Slice(read[d].start - OverallSlices(name)[d].start,
                            read[d].stop - OverallSlices(name)[d].start)]
    IN  IF flip_y
        THEN <<FlippedSlice(dim_size["y"], write[1]), write[2]>>
        ELSE write

\* lines 245-279: the pieces written one after another
RECURSIVE CopyPieces(_, _, _)
CopyPieces(output, name, pieces) ==
    IF pieces = << >> THEN output
    ELSE CopyPieces(
             WriteSlices(output, PieceWriteSlices(name, Head(pieces)),
                         ReadSlices(name,
                                    PieceReadSlices(name, Head(pieces)))),
             name, Tail(pieces))

\* createVariable: an array over the output dimensions, nothing written
\* (-1)
CreatedVariable(name) ==
    [index \in IndexSet([d \in DOMAIN Dimensions(name) |->
                             dim_size[Dimensions(name)[d]]]) |-> 0 - 1]

\* lines 206-212: the slices read in one hit
OneHitSlices(name) ==
    IF name = "y" /\ flip_y
    THEN <<SliceBack(OverallSlices(name)[1].stop - 1,
                     OverallSlices(name)[1].start - 1,
                     OverallSlices(name)[1].start = 0)>>
    ELSE OverallSlices(name)

\* lines 190-279: the output variable after the data is copied
CopiedVariable(name) ==
    IF InputVariableChunking(name) = None \/ Len(Dimensions(name)) # 2
    THEN ReadSlices(name, OneHitSlices(name))
    ELSE CopyPieces(CreatedVariable(name), name, Pieces(name))

\* copy(nc_out_path, variable_options_dict=options, dim_range_dict=ranges,
\* invert_y=invert), lines 76-121: up to the loop over the variables.  Lines
\* 82-85 give every data variable an entry in variable_options_dict, a copy
\* of DEFAULT_COPY_OPTIONS updated with the entry it had; the copy holds the
\* chunksizes list of DEFAULT_COPY_OPTIONS itself unless the caller's entry
\* brought its own.  A dictionary left out is the parameter's default value.
CallCopy ==
    \E invert \in InvertYArgs, ranges \in DimRangeArgs,
       options \in VariableOptionsArgs :
        /\ copy_pc \in {"idle", "closed"}
        /\ copy_pc' = "variables"
        /\ invert_y' = invert
        /\ dim_range_dict' = ranges
        /\ flip_y' = FlipY(invert)
        /\ dim_size' = DimSize(ranges)
        /\ variable_options_dict' =
               [default |-> options.omitted,
                names |-> (IF options.omitted THEN default_variable_options
                                              ELSE {})
                          \cup data_variable_list,
                chunksizes |-> IF options.chunksizes = << >>
                               THEN SharedChunksizes
                               ELSE OwnChunksizes(options.chunksizes)]
        /\ default_variable_options' =
               IF options.omitted
               THEN default_variable_options \cup data_variable_list
               ELSE default_variable_options
        /\ nc_output_dataset' = << >>
        /\ UNCHANGED <<DEFAULT_COPY_OPTIONS, y_variable, y_inverted,
                       chunking, grid_vars>>

\* One pass of the loop of lines 123-283, for the next variable in order.
\* Lines 160-163 write the cut chunk sizes into the list itself.
CopyVariable ==
    /\ copy_pc = "variables"
    /\ Len(nc_output_dataset) < Len(VariableNames)
    /\ LET name == VariableNames[Len(nc_output_dataset) + 1]
       IN  /\ nc_output_dataset' =
                  Append(nc_output_dataset, CopiedVariable(name))
           /\ IF VarChunksizes(name).shared
              THEN DEFAULT_COPY_OPTIONS' =
                       [DEFAULT_COPY_OPTIONS EXCEPT
                            !.chunksizes = ClampedChunksizes(name)]
              ELSE UNCHANGED DEFAULT_COPY_OPTIONS
           /\ IF /\ name \in variable_options_dict.names
                 /\ ~variable_options_dict.chunksizes.shared
              THEN variable_options_dict' =
                       [variable_options_dict EXCEPT
                            !.chunksizes =
                                OwnChunksizes(ClampedChunksizes(name))]
              ELSE UNCHANGED variable_options_dict
    /\ UNCHANGED <<copy_pc, invert_y, dim_range_dict, flip_y, dim_size,
                   default_variable_options, y_variable, y_inverted,
                   chunking, grid_vars>>

\* lines 285-296: every variable is copied, the output dataset is closed
CloseCopy ==
    /\ copy_pc = "variables"
    /\ Len(nc_output_dataset) = Len(VariableNames)
    /\ copy_pc' = "closed"
    /\ UNCHANGED <<invert_y, dim_range_dict, flip_y, dim_size,
                   variable_options_dict, nc_output_dataset,
                   DEFAULT_COPY_OPTIONS, default_variable_options,
                   y_variable, y_inverted, chunking, grid_vars>>

NextCopy ==
    \/ CallCopy
    \/ CopyVariable
    \/ CloseCopy

\* Copies of datasets with either y orientation, the 2-D variables
\* contiguous or chunked; the grid handle is left idle
InitCopy ==
    /\ GridInit
    /\ dimension_arrays = <<<<0, 10, 20>>, <<0, 10, 20, 30>>>>
    /\ data_variable.itemsize = 4
    /\ coordinates = << >>
    /\ ~same_object
    /\ NoCrsCall
    /\ earlier = NoEarlier
    /\ nominal_pixel_metres =
           get_nominal_pixel_metres(dimension_arrays, YX_order)
    /\ default_sample_metres =
           get_default_sample_metres(nominal_pixel_metres)
    /\ \E ys \in {<<0, 10, 20>>, <<20, 10, 0>>},
          data_chunking \in DataChunkings,
          quality_chunking \in QualityChunkings :
           UtilsInit(ys, data_chunking, quality_chunking)

SpecCopy == InitCopy /\ [][NextCopy]_vars

(***************************************************************************)
(* Vocabulary of the properties.                                           *)
(***************************************************************************)
Done(name) == pc = "done" /\ op = name

\* Input pair k of the call, in the native reference system and in the
\* array's dimension order
StorageCoordinate(k) == IF YX_order THEN Reverse(input[k]) ELSE input[k]

\* The coordinate lies below min_extent or above max_extent on some axis
OutsideExtent(c) ==
    \/ c[1] < min_extent[1] \/ c[1] > max_extent[1]
    \/ c[2] < min_extent[2] \/ c[2] > max_extent[2]

\* 0-based storage indices of the grid's cells
Cells == (0..(Len(dimension_arrays[1]) - 1)) \X (0..(Len(dimension_arrays[2]) - 1))

\* The coordinate is strictly inside the half-pixel window of the cell
StrictlyInside(c, cell) ==
    \A d \in 1..2 :
        2 * Abs(dimension_arrays[d][cell[d] + 1] - c[d]) < pixel_size[d]

\* The coordinate is the centre of the cell
CentreOf(c, cell) ==
    \A d \in 1..2 : dimension_arrays[d][cell[d] + 1] = c[d]

\* The grid of the scenario: x = [0,10,20,30], y = [0,10,20], pixels (10,10)
ScenarioGrid ==
    /\ dimension_arrays[IF YX_order THEN 2 ELSE 1] = <<0, 10, 20, 30>>
    /\ dimension_arrays[IF YX_order THEN 1 ELSE 2] = <<0, 10, 20>>
    /\ pixel_size = <<10, 10>>

\* An index pair given as (x index, y index), in the array's dimension order
StorageIndex(xi, yi) == IF YX_order THEN <<yi, xi>> ELSE <<xi, yi>>

(***************************************************************************)
(* C1.  A coordinate of a batch that lies below min_extent or above        *)
(* max_extent on at least one axis resolves to None, in both resolvers:    *)
(* the call returns (it does not raise) and the entry is None, not an      *)
(* index pair.                                                             *)
(***************************************************************************)
C1_OutOfExtentIsNone ==
    (Done("get_indices_from_coords")
         \/ Done("get_fractional_indices_from_coords")) =>
        \A k \in DOMAIN input :
            OutsideExtent(StorageCoordinate(k)) =>
                result.kind = "list" /\ result.value[k] = None

\* a batch mixing a pair out of extent on the second axis only with a pair
\* in extent has been resolved
C1_Witness ==
    /\ Done("get_indices_from_coords")
    /\ \E k \in DOMAIN input :
           /\ StorageCoordinate(k)[2] > max_extent[2]
           /\ StorageCoordinate(k)[1] <= max_extent[1]
           /\ StorageCoordinate(k)[1] >= min_extent[1]
           /\ result.value[k] = None
    /\ \E k \in DOMAIN input : result.value[k] # None

(***************************************************************************)
(* C2.  On the scenario grid get_indices_from_coords resolves (5,5) to     *)
(* (0,0).  As claimed, it resolves (35,5) to None;                         *)
(* as amended, (35,5) lies on max_extent, which is inside the extent, and  *)
(* resolves to the last x cell (x index 3, y index 0), while (36,5)        *)
(* resolves to None.                                                       *)
(***************************************************************************)
C2_ScenarioAsClaimed ==
    (Done("get_indices_from_coords") /\ ScenarioGrid) =>
        \A k \in DOMAIN input :
            /\ input[k] = <<5, 5>> => result.value[k] = <<0, 0>>
            /\ input[k] = <<35, 5>> => result.value[k] = None

C2_ScenarioAmended ==
    (Done("get_indices_from_coords") /\ ScenarioGrid) =>
        /\ result.kind = "list"
        /\ \A k \in DOMAIN input :
            /\ input[k] = <<5, 5>> => result.value[k] = <<0, 0>>
            /\ input[k] = <<35, 5>> => result.value[k] = StorageIndex(3, 0)
            /\ input[k] = <<36, 5>> => result.value[k] = None

C2_Witness ==
    /\ Done("get_indices_from_coords")
    /\ ScenarioGrid
    /\ input = <<<<35, 5>>>>
    /\ result.value = <<StorageIndex(3, 0)>>

(***************************************************************************)
(* C3.  On a grid whose axes are regularly spaced by pixel_size, ascending *)
(* or descending, a coordinate strictly inside the half-pixel window of    *)
(* cell (i, j) on both axes resolves to exactly (i, j).                    *)
(***************************************************************************)
C3_InsideCellResolvesToCell ==
    Done("get_indices_from_coords") =>
        \A k \in DOMAIN input : \A cell \in Cells :
            StrictlyInside(StorageCoordinate(k), cell) =>
                result.kind = "list" /\ result.value[k] = cell

\* an off-centre coordinate inside a cell of a descending axis has resolved
C3_Witness ==
    /\ Done("get_indices_from_coords")
    /\ dimension_arrays[1][1] > dimension_arrays[1][2]
    /\ \E k \in DOMAIN input : \E cell \in Cells :
           /\ StrictlyInside(StorageCoordinate(k), cell)
           /\ ~CentreOf(StorageCoordinate(k), cell)
           /\ cell[1] > 0
           /\ result.value[k] = cell

(***************************************************************************)
(* C4.  For a coordinate strictly inside the half-pixel window of cell     *)
(* (i, j), get_fractional_indices_from_coords returns on each axis d a     *)
(* fractional index f with index[d] <= f < index[d] + 1, where index is    *)
(* the cell's storage index, also on axes stored in descending order.      *)
(***************************************************************************)
C4_FractionalWithinCell ==
    Done("get_fractional_indices_from_coords") =>
        \A k \in DOMAIN input : \A cell \in Cells :
            StrictlyInside(StorageCoordinate(k), cell) =>
                /\ result.value[k] # None
                /\ \A d \in 1..2 :
                       /\ cell[d] * result.value[k][d].den
                              <= result.value[k][d].num
                       /\ result.value[k][d].num
                              < (cell[d] + 1) * result.value[k][d].den

(***************************************************************************)
(* C5.  get_interpolated_value_at_coords queried at the exact centre of a  *)
(* cell, on ascending or descending axes, returns the value that           *)
(* get_value_at_coords returns for that coordinate: the value the store    *)
(* holds at the cell.                                                      *)
(***************************************************************************)
C5_CentreInterpolatedIsNearest ==
    (Done("get_interpolated_value_at_coords") /\ ~StoreFailed) =>
        \A k \in DOMAIN input : \A cell \in Cells :
            CentreOf(StorageCoordinate(k), cell) =>
                /\ result.kind = "list"
                /\ result.value[k] = StoreValue(cell[1], cell[2])


\* The index entries the resolver gives the call's input
ResolvedInput == get_indices_from_coords(input).value

\* The byte budget of the call and the size of one element
Budget == EffectiveMaxBytes(max_bytes)
ItemSize == data_variable.itemsize

\* The batch fetches the call has issued
BatchFetches == {p \in DOMAIN fetches : fetches[p].kind = "batch"}
BatchSize(p) == fetches[p].end - fetches[p].start

(***************************************************************************)
(* C6.  For a fixed sequence of coordinate pairs get_value_at_coords       *)
(* returns the same result sequence for every positive max_bytes: with any *)
(* budget the result is the one a single fetch of all valid index pairs    *)
(* gives, which is what a budget large enough for one batch returns.       *)
(***************************************************************************)
C6_BatchSizeInvariance ==
    (Done("get_value_at_coords") /\ ~StoreFailed /\ max_bytes > 0
         /\ ValidPairs(ResolvedInput) # << >>) =>
        LET pairs == ValidPairs(ResolvedInput)
            once == FetchedInto(NoDataArray(Len(pairs)), pairs, 0, Len(pairs))
        IN  result = [kind |-> "list",
                      value |-> Stitch(MaskOf(ResolvedInput), once)]

\* a call whose budget split three valid pairs into several batches, one of
\* them holding two pairs, has returned
C6_Witness ==
    /\ Done("get_value_at_coords")
    /\ max_bytes > 0
    /\ result.kind = "list"
    /\ Len(ValidPairs(ResolvedInput)) = 3
    /\ Len(fetches) = 2
    /\ \A p \in DOMAIN fetches : fetches[p].ok

C8_AllOutsideIsAllNoData ==
    (Done("get_value_at_coords") /\ input # << >>
         /\ \A k \in DOMAIN input : OutsideExtent(StorageCoordinate(k))) =>
        result = [kind |-> "list", value |-> NoDataArray(Len(input))]

(***************************************************************************)
(* C9.  For an input of n pairs with at least one in extent,               *)
(* get_value_at_coords returns n entries: at every position k the no-data  *)
(* sentinel if input k resolves to None, otherwise the store value at the  *)
(* index pair resolved for input k.                                        *)
(***************************************************************************)
C9_ValuesInInputOrder ==
    (Done("get_value_at_coords") /\ ~StoreFailed
         /\ \E k \in DOMAIN input : ~OutsideExtent(StorageCoordinate(k))) =>
        /\ result.kind = "list"
        /\ Len(result.value) = Len(input)
        /\ \A k \in DOMAIN input :
               result.value[k] =
                   IF ResolvedInput[k] = None
                   THEN data_variable.FillValue
                   ELSE StoreValue(ResolvedInput[k][1], ResolvedInput[k][2])

\* a batch with a pair out of extent between two different cells has been
\* sampled in more than one fetch
C9_Witness ==
    /\ Done("get_value_at_coords")
    /\ result.kind = "list"
    /\ Len(input) = 3
    /\ ResolvedInput[1] # None
    /\ ResolvedInput[2] = None
    /\ ResolvedInput[3] # None
    /\ ResolvedInput[1] # ResolvedInput[3]
    /\ result.value[1] # result.value[3]
    /\ Len(fetches) = 2

(***************************************************************************)
(* C10.  A store failure during a batch fetch of get_value_at_coords       *)
(* propagates at once: the failed fetch is the call's last store access    *)
(* and the call ends with the store's error, not with a value.             *)
(***************************************************************************)
C10_StoreFailurePropagates ==
    op = "get_value_at_coords" =>
        \A p \in BatchFetches :
            ~fetches[p].ok =>
                /\ p = Len(fetches)
                /\ pc = "done" => result.kind = "StoreError"

(***************************************************************************)
(* C11.  Both resolvers hand transform_coords from_crs = the caller's      *)
(* source reference system (the native one when crs is omitted) and        *)
(* to_crs = the dataset's native reference system.                         *)
(***************************************************************************)
C11_TransformSourceToNative ==
    (pc = "done" /\ transform_call # NoTransform) =>
        transform_call = [from_crs |-> CrsOr(source_crs), to_crs |-> crs]

(***************************************************************************)
(* C12.  get_indices_from_coords (or get_value_at_coords) called twice in  *)
(* a row with the same list returns the same sequence both times, for both *)
(* axis orders and also when the identity transform hands back the         *)
(* caller's own list: the second call sees the coordinates the first saw.  *)
(***************************************************************************)
C12_RepeatedCallSameResult ==
    (pc = "done" /\ earlier # NoEarlier) =>
        /\ input = earlier.input
        /\ result = earlier.result

(***************************************************************************)
(* C15.  The default transect spacing is the average of the two nominal    *)
(* pixel sizes rounded up to a value of the form 10^n or 5*10^n: the       *)
(* smallest such value that is not less than the average, so an average    *)
(* that is itself of that form is kept; and it is positive.  It is the     *)
(* spacing sample_transect uses when sample_metres is left out.            *)
(***************************************************************************)
\* The values 10^n and 5 * 10^n up to 1000
RoundValues == {1, 5, 10, 50, 100, 500, 1000}

\* v is not less than the average of the two nominal pixel sizes
NotBelowAverage(v) == 2 * v >= nominal_pixel_metres[1] + nominal_pixel_metres[2]

\* sample_transect has been called without sample_metres
SampledAtDefault ==
    Done("sample_transect") /\ result.value = <<default_sample_metres>>

C15_DefaultSampleRoundedUp ==
    SampledAtDefault =>
        /\ result.value[1] > 0
        /\ result.value[1] \in RoundValues
        /\ NotBelowAverage(result.value[1])
        /\ \A v \in RoundValues :
               NotBelowAverage(v) => result.value[1] <= v

(***************************************************************************)
(* C13.  After construction and after any sequence of calls of the two     *)
(* resolvers, the two samplers and sample_transect, on each axis d         *)
(* min_extent[d] = min(axis[d]) - pixel_size[d]/2 and                      *)
(* max_extent[d] = max(axis[d]) + pixel_size[d]/2, and no step changes     *)
(* dimension_arrays, pixel_size, YX_order, crs or the extents.             *)
(***************************************************************************)
ExtentsOfAxes ==
    \A d \in 1..2 :
        /\ 2 * min_extent[d] = 2 * SeqMin(dimension_arrays[d]) - pixel_size[d]
        /\ 2 * max_extent[d] = 2 * SeqMax(dimension_arrays[d]) + pixel_size[d]

C13_GeometryFixed ==
    /\ []ExtentsOfAxes
    /\ [][UNCHANGED <<dimension_arrays, pixel_size, YX_order, crs,
                      min_extent, max_extent>>]_vars

\* the nearest-value sampler has returned on a grid with a descending axis,
\* having rewritten the caller's list, and the extents are those of the axes
C13_Witness ==
    /\ Done("get_value_at_coords")
    /\ result.kind = "list"
    /\ coordinates # input
    /\ dimension_arrays[1][1] > dimension_arrays[1][2]
    /\ ExtentsOfAxes

(***************************************************************************)
(* C14.  In the sequence get_interpolated_value_at_coords returns, every   *)
(* position whose coordinate is out of extent, and every position whose    *)
(* nearest-cell value (what get_value_at_coords returns there for the same *)
(* input) is the no-data sentinel, holds the no-data sentinel.             *)
(***************************************************************************)
\* The value get_value_at_coords returns at position k for the call's input
NearestValue(k) ==
    IF ResolvedInput[k] = None
    THEN data_variable.FillValue
    ELSE StoreValue(ResolvedInput[k][1], ResolvedInput[k][2])

C14_NoDataStaysNoData ==
    (Done("get_interpolated_value_at_coords") /\ result.kind = "list") =>
        \A k \in DOMAIN input :
            (\/ OutsideExtent(StorageCoordinate(k))
             \/ NearestValue(k) = data_variable.FillValue) =>
                result.value[k] = data_variable.FillValue

(***************************************************************************)
(* C16.  With max_bytes left out, get_value_at_coords and                  *)
(* get_interpolated_value_at_coords size their batches with                *)
(* DEFAULT_MAX_BYTES: the batch limit is the largest number of pairs whose *)
(* square times the element size fits in DEFAULT_MAX_BYTES.                *)
(***************************************************************************)
C16_DefaultBudget ==
    (/\ op \in {"get_value_at_coords", "get_interpolated_value_at_coords"}
     /\ max_bytes = 0
     /\ pc = "loop") =>
        /\ max_points * max_points <= DEFAULT_MAX_BYTES \div ItemSize
        /\ (max_points + 1) * (max_points + 1) > DEFAULT_MAX_BYTES \div ItemSize

(***************************************************************************)
(* C18.  For n >= 1 valid index pairs and a batch limit max_points >= 1    *)
(* the loop of get_value_at_coords fetches one range after another: the    *)
(* first starts at 0, each holds between 1 and max_points pairs, each      *)
(* starts where the one before ended, the last ends at n, so that the      *)
(* ranges cover positions 0..n-1 once and in order; and the loop ends      *)
(* after ceil(n / max_points) fetches.                                     *)
(***************************************************************************)
\* n, the number of valid index pairs of the call, and its batch limit
ValidCount == Len(ValidPairs(ResolvedInput))
BatchLimit == MaxPoints(Budget, ItemSize)

\* ceil(n / max_points)
FetchesNeeded == (ValidCount + BatchLimit - 1) \div BatchLimit

BatchesInOrder ==
    (op = "get_value_at_coords" /\ ValidCount >= 1) =>
        /\ BatchLimit >= 1
        /\ \A p \in DOMAIN fetches :
               /\ fetches[p].kind = "batch"
               /\ BatchSize(p) >= 1
               /\ BatchSize(p) <= BatchLimit
               /\ fetches[p].start = IF p = 1 THEN 0 ELSE fetches[p - 1].end
               /\ fetches[p].end <= ValidCount
        /\ Len(fetches) <= FetchesNeeded
        /\ pc = "loop" => Len(fetches) < FetchesNeeded
        /\ pc = "done" =>
               /\ result.kind = "list"
               /\ Len(fetches) = FetchesNeeded
               /\ fetches[Len(fetches)].end = ValidCount

C18_BatchLoopCoversAndEnds ==
    /\ []BatchesInOrder
    /\ (pc = "loop") ~> (pc = "done")

\* three valid pairs have been fetched one at a time
C18_Witness ==
    /\ Done("get_value_at_coords")
    /\ ValidCount = 3
    /\ BatchLimit = 1
    /\ Len(fetches) = 3
    /\ fetches[3].start = 2 /\ fetches[3].end = 3

(***************************************************************************)
(* C17.  When a copy has closed its output: with invert_y = None nothing   *)
(* is flipped, every variable that has the y dimension holding in output   *)
(* row k the input row k of the copied range; with a flip (invert_y        *)
(* different from the orientation of the source) the y coordinate variable *)
(* and every 2-D variable that has the y dimension hold in output row k    *)
(* the input row H - 1 - k of the copied range, H the copied y length,     *)
(* whatever the piece sizes and the range.                                 *)
(***************************************************************************)
\* The variables (by position in VariableNames) that have the y dimension
VariablesWithY ==
    {n \in DOMAIN VariableNames :
         \E d \in DOMAIN Dimensions(VariableNames[n]) :
             Dimensions(VariableNames[n])[d] = "y"}

\* First input row of the copied range
RangeStart == IF dim_range_dict = None THEN 0 ELSE dim_range_dict[1]

\* Output row k of variable n holds the input row k of the range
CopiedForward(n) ==
    \A index \in DOMAIN nc_output_dataset[n] :
        nc_output_dataset[n][index] =
            InputValue(VariableNames[n],
                       [index EXCEPT ![1] = RangeStart + index[1]])

\* Output row k of variable n holds the input row H - 1 - k of the range
CopiedReversed(n) ==
    \A index \in DOMAIN nc_output_dataset[n] :
        nc_output_dataset[n][index] =
            InputValue(VariableNames[n],
                       [index EXCEPT
                            ![1] = RangeStart + (dim_size["y"] - 1 - index[1])])

C17_FlipReversesEveryYVariable ==
    copy_pc = "closed" =>
        \A n \in VariablesWithY :
            /\ DOMAIN nc_output_dataset[n] =
                   IndexSet([d \in DOMAIN Dimensions(VariableNames[n]) |->
                                 dim_size[Dimensions(VariableNames[n])[d]]])
            /\ invert_y = None => CopiedForward(n)
            /\ flip_y => CopiedReversed(n)

(***************************************************************************)
(* C19.  A copy leaves NetCDFUtils.DEFAULT_COPY_OPTIONS, its chunksizes    *)
(* list [1024, 1024] in particular, and the default value of the           *)
(* variable_options_dict parameter (an empty dictionary) as they were.     *)
(***************************************************************************)
C19_DefaultsUntouched ==
    copy_pc = "closed" =>
        /\ DEFAULT_COPY_OPTIONS = [complevel |-> 4, chunksizes |-> <<1024, 1024>>]
        /\ default_variable_options = {}

====
